---------------------------- MODULE Spec2Model ----------------------------
(* Model of the MDB cashless protocol engine (src/MDB/Mdb.c, src/MDB/MDB.h). *)
(* Every C function is an operator from a machine record to a machine      *)
(* record; an action runs one externally callable function to completion.  *)
(* Arrays are 0-based in C and 1-based here: buf[i] in C is buf[i+1].      *)
EXTENDS Integers, Sequences, FiniteSets, TLC

(* ------------------------------ bounds -------------------------------- *)
MaxClock == 94000
MaxErrors == 1
MaxTx == 1
MaxQueued == 1
MaxEnqueued == 2
MaxBusy == 3
MaxErrClock == 10000
MaxRunErrors == 7
MaxPayload == 2
MaxLogged == 52
MaxVaried == 2
MaxArrivals == 15
MaxPollClock == 600
MaxLinkClock == 1000
MaxLinkErrors == 4

(* ------------------------- program constants -------------------------- *)
U8 == 256

MDB_STATE_INACTIVE == 0
MDB_STATE_DISABLED == 1
MDB_STATE_ENABLED == 2
MDB_STATE_SESSION_IDLE == 3
MDB_STATE_VEND == 4
MDB_STATE_REVALUE == 5
MDB_STATE_NEGATIVE_VEND == 6

MDB_ERR_NONE == 0
MDB_ERR_NAK == 1
MDB_ERR_TIMEOUT == 2
MDB_ERR_CHECKSUM == 3
MDB_ERR_STATE == 4
MDB_ERR_PARAMETER == 5
MDB_ERR_COMMUNICATION == 6
MDB_ERR_SEQUENCE == 7
MDB_ERR_FUNDS == 8
MDB_ERR_HARDWARE == 9

MDB_ACK == 0
MDB_NAK == 255
MDB_RET == 170

MDB_CMD_RESET == 16
MDB_CMD_SETUP == 17
MDB_CMD_POLL == 18
MDB_CMD_VEND == 19
MDB_CMD_READER == 20

MDB_RESPONSE_TIMEOUT == 5
MDB_INTERBYTE_TIMEOUT == 1
MDB_POLL_INTERVAL == 200
MDB_MAX_MESSAGE_LENGTH == 36
MDB_QUEUE_SIZE == 10
MDB_ERROR_LOG_SIZE == 50

RetryLimit == 3
BurstWindow == 5000
BurstLimit == 5
SeriousLimit == 3
SessionIdleLimit == 30000
RecoveryDelay == 100
ModeBitMask == 256

(* Command bytes of received frames and sub-commands of sent frames.  The  *)
(* header does not define them; the values are those of the MDB cashless   *)
(* command set the specification enumerates.                               *)
MDBRxCashlessJustReset == 0
MDBRxCashlessBeginSession == 3
MDBRxCashlessVendApproved == 5
MDBRxCashlessVendDenied == 6
MDBRxCashlessEndSession == 7
SubReaderDisable == 0
SubReaderEnable == 1
SubVendFailure == 3
SubSessionComplete == 4

(* ------------------------------ helpers ------------------------------- *)
ZeroBuffer == [i \in 1..MDB_MAX_MESSAGE_LENGTH |-> 0]

(* memcpy(buf, data, Len(data)): the first Len(data) slots are overwritten *)
(* and the rest of the buffer keeps its old content.                      *)
MemCpy(buf, data) ==
  [i \in 1..MDB_MAX_MESSAGE_LENGTH |-> IF i <= Len(data) THEN data[i] ELSE buf[i]]

Prefix(buf, n) == [i \in 1..n |-> buf[i]]

RECURSIVE SumBytes(_, _)
SumBytes(data, n) == IF n = 0 THEN 0 ELSE (SumBytes(data, n - 1) + data[n]) % U8

(* sum of the first length bytes, modulo 256 *)
CalculateChecksum(data, length) == SumBytes(data, length)

(* bit k (0..7) of byte b flipped *)
FlipBit(b, k) ==
  LET w == 2 ^ k
  IN  IF (b \div w) % 2 = 1 THEN b - w ELSE b + w

Call(fn, arg) == [fn |-> fn, arg |-> arg]

(* MDB_Message_t and MDB_MessageQueue_t; data holds the length bytes of  *)
(* the frame.  The capture timestamp of a message is read by nothing in  *)
(* the engine and is left out.                                            *)
Message(data) == [data |-> data, length |-> Len(data)]
ZeroMessage == Message(<<>>)
ZeroQueue ==
  [messages |-> [i \in 0..(MDB_QUEUE_SIZE - 1) |-> ZeroMessage],
   head |-> 0, tail |-> 0, count |-> 0]

(* now - then on uint32_t.  The tick counter stays far below 2^31 within  *)
(* the bounds of this model and never wraps, so that then <= now and the  *)
(* unsigned difference is the plain one; a difference that would wrap is  *)
(* above every threshold the program compares it with.                    *)
TickWrapped == 2147483647
TicksSince(now, then) == IF now >= then THEN now - then ELSE TickWrapped


(* ------------------------------ state --------------------------------- *)
VARIABLES
  state, availableFunds, vendAmount, itemNumber, multivend, refundable,
  sessionTimeout,
  messageQueue,
  errorLog, errorLogIndex,
  lastPollTime,
  rxBuffer, lastCommand, lastCommandLength, retryCount,
  lastErrorTime, rapidErrorCount, seriousErrorCount,
  clock,
  lastOp, ret, calls, wire,
  errCount, errRun, burstFired, spaced, nakRun, nakResends, nakReset,
  logged, pending, pollSentAt, pollGap, lastAccepted

vars == <<state, availableFunds, vendAmount, itemNumber, multivend, refundable,
          sessionTimeout, messageQueue, errorLog, errorLogIndex, lastPollTime,
          rxBuffer, lastCommand, lastCommandLength, retryCount,
          lastErrorTime, rapidErrorCount, seriousErrorCount, clock,
          lastOp, ret, calls, wire,
          errCount, errRun, burstFired, spaced, nakRun, nakResends, nakReset,
          logged, pending, pollSentAt, pollGap, lastAccepted>>

(* The machine at the start of an operation: the program's variables, the *)
(* behaviour of the transport during the operation (txFail: which of the  *)
(* operation's transmits fail; rxPlan: what the device sends in answer to *)
(* each wait), and the record of what the operation did (calls, wire).    *)
Machine(op, txFail, rxPlan) ==
  [state |-> state, availableFunds |-> availableFunds, vendAmount |-> vendAmount,
   itemNumber |-> itemNumber, multivend |-> multivend, refundable |-> refundable,
   sessionTimeout |-> sessionTimeout, messageQueue |-> messageQueue,
   errorLog |-> errorLog, errorLogIndex |-> errorLogIndex,
   lastPollTime |-> lastPollTime, rxBuffer |-> rxBuffer,
   lastCommand |-> lastCommand, lastCommandLength |-> lastCommandLength,
   retryCount |-> retryCount, lastErrorTime |-> lastErrorTime,
   rapidErrorCount |-> rapidErrorCount, seriousErrorCount |-> seriousErrorCount,
   clock |-> clock,
   lastOp |-> op, ret |-> TRUE, calls |-> <<>>, wire |-> <<>>,
   errCount |-> errCount, errRun |-> errRun, burstFired |-> burstFired,
   spaced |-> spaced, nakRun |-> nakRun, nakResends |-> nakResends,
   nakReset |-> nakReset,
   logged |-> logged, pending |-> pending,
   pollSentAt |-> pollSentAt, pollGap |-> pollGap,
   lastAccepted |-> lastAccepted,
   txFail |-> txFail, txn |-> 0, rxPlan |-> rxPlan, respLen |-> 0]

Commit(m) ==
  /\ state' = m.state
  /\ availableFunds' = m.availableFunds
  /\ vendAmount' = m.vendAmount
  /\ itemNumber' = m.itemNumber
  /\ multivend' = m.multivend
  /\ refundable' = m.refundable
  /\ sessionTimeout' = m.sessionTimeout
  /\ messageQueue' = m.messageQueue
  /\ errorLog' = m.errorLog
  /\ errorLogIndex' = m.errorLogIndex
  /\ lastPollTime' = m.lastPollTime
  /\ rxBuffer' = m.rxBuffer
  /\ lastCommand' = m.lastCommand
  /\ lastCommandLength' = m.lastCommandLength
  /\ retryCount' = m.retryCount
  /\ lastErrorTime' = m.lastErrorTime
  /\ rapidErrorCount' = m.rapidErrorCount
  /\ seriousErrorCount' = m.seriousErrorCount
  /\ clock' = m.clock
  /\ lastOp' = m.lastOp
  /\ ret' = m.ret
  /\ calls' = m.calls
  /\ wire' = m.wire
  /\ errCount' = m.errCount
  /\ errRun' = m.errRun
  /\ burstFired' = m.burstFired
  /\ spaced' = m.spaced
  /\ nakRun' = m.nakRun
  /\ nakResends' = m.nakResends
  /\ nakReset' = m.nakReset
  /\ logged' = m.logged
  /\ pending' = m.pending
  /\ pollSentAt' = m.pollSentAt
  /\ pollGap' = m.pollGap
  /\ lastAccepted' = m.lastAccepted

(* --------------------------- collaborators ---------------------------- *)
Noted(m, fn, arg) == [m EXCEPT !.calls = Append(@, Call(fn, arg))]

Returning(m, r) == [m EXCEPT !.ret = r]

(* HAL_GetTick is a 32-bit millisecond counter *)
Elapse(m, ms) == [m EXCEPT !.clock = @ + ms]

HAL_Delay(m, ms) == Elapse(m, ms)

(* the error is classified and rendered by the log sink; no engine state  *)
(* depends on it                                                          *)
MDB_LogError(m, error) == Noted(m, "MDB_LogError", error)

MDB_SetState(m, newState) == [m EXCEPT !.state = newState]

(* --------------------------- transport -------------------------------- *)
(* txBuffer[length] = CalculateChecksum(data, length) *)
TxChecksum(data, length) == CalculateChecksum(data, length)

(* the command saved for retry only once the transmit has succeeded *)
SendCommand_SavesOnSuccess(m, data) ==
  LET length == Len(data)
      n == Noted(m, "SendCommand", length)
  IN
  IF length > MDB_MAX_MESSAGE_LENGTH - 1
  THEN Returning(MDB_LogError(n, MDB_ERR_PARAMETER), FALSE)
  ELSE
    LET passed == [n EXCEPT !.lastAccepted = data, !.txn = @ + 1]
        txBuffer == Append(data, TxChecksum(data, length))
    IN  IF passed.txn \in passed.txFail
        THEN Returning(MDB_LogError(Noted(passed, "TransmitFailed", passed.txn),
                                    MDB_ERR_COMMUNICATION), FALSE)
        ELSE Returning([passed EXCEPT !.lastCommand = MemCpy(@, data),
                                      !.lastCommandLength = length,
                                      !.wire = Append(@, txBuffer)], TRUE)

SendCommand(m, data) ==
  LET length == Len(data)
      n == Noted(m, "SendCommand", length)
  IN
  IF length > MDB_MAX_MESSAGE_LENGTH - 1
  THEN Returning(MDB_LogError(n, MDB_ERR_PARAMETER), FALSE)
  ELSE
    LET saved == [n EXCEPT !.lastCommand = MemCpy(@, data),
                           !.lastCommandLength = length,
                           !.lastAccepted = data,
                           !.txn = @ + 1]
        txBuffer == Append(data, TxChecksum(data, length))
    IN  IF saved.txn \in saved.txFail
        THEN Returning(MDB_LogError(Noted(saved, "TransmitFailed", saved.txn),
                                    MDB_ERR_COMMUNICATION), FALSE)
        ELSE Returning([saved EXCEPT !.wire = Append(@, txBuffer)], TRUE)

(* response[*length-1] & 0x100, on an 8-bit slot *)
ModeBitSet(byte) == ((byte % U8) \div ModeBitMask) % 2 = 1

(* the sum taken over the whole frame, checksum byte included *)
ChecksumMatches_WholeFrame(response, length) ==
  CalculateChecksum(response, length) = response[length]

(* lines 245-252: the last byte against the checksum of those before it *)
ChecksumMatches(response, length) ==
  CalculateChecksum(response, length - 1) = response[length]

ValidateFrame(m, length) ==
  IF length > 1 /\ ~ChecksumMatches(m.rxBuffer, length)
  THEN Returning(MDB_LogError(m, MDB_ERR_CHECKSUM), FALSE)
  ELSE Returning([Noted(m, "FrameAccepted", m.rxBuffer[1]) EXCEPT
                    !.respLen = length], TRUE)

(* the inner loop of WaitForResponse; length bytes of the script are in    *)
(* the buffer, the device sends script and then stays silent               *)
RECURSIVE ReceiveMore(_, _, _)
ReceiveMore(m, script, length) ==
  IF ModeBitSet(m.rxBuffer[length])
  THEN ValidateFrame(m, length)
  ELSE IF length >= Len(script)
  THEN Returning(MDB_LogError(Noted(Elapse(m, MDB_INTERBYTE_TIMEOUT),
                                    "InterbyteTimeout", length),
                              MDB_ERR_COMMUNICATION), FALSE)
  ELSE LET got == [m EXCEPT !.rxBuffer[length + 1] = script[length + 1]]
       IN  IF length + 1 >= MDB_MAX_MESSAGE_LENGTH
           THEN Returning(MDB_LogError(got, MDB_ERR_PARAMETER), FALSE)
           ELSE ReceiveMore(got, script, length + 1)

WaitForResponse(m) ==
  LET script == IF m.rxPlan = <<>> THEN <<>> ELSE Head(m.rxPlan)
      n == [Noted(Noted(m, "WaitForResponse",
                        IF script = <<>> THEN -1 ELSE script[1]),
                  "DeviceSent", Len(script))
              EXCEPT
              !.rxPlan = IF @ = <<>> THEN <<>> ELSE Tail(@)]
  IN
  IF script = <<>>
  THEN Returning(MDB_LogError(Elapse(n, MDB_RESPONSE_TIMEOUT), MDB_ERR_TIMEOUT), FALSE)
  ELSE ReceiveMore([n EXCEPT !.rxBuffer[1] = script[1]], script, 1)


(* ---------------- state machine (bodies not in the sources) ----------- *)
ClearSession(m) ==
  [m EXCEPT !.availableFunds = 0, !.vendAmount = 0, !.itemNumber = 0,
            !.multivend = FALSE, !.refundable = FALSE, !.sessionTimeout = 0]

(* EnableReader while Disabled: send READER ENABLE, state -> Enabled;     *)
(* illegal from any other state (State error)                             *)
MDB_EnableReader(m) ==
  LET n == Noted(m, "MDB_EnableReader", m.state)
  IN  IF n.state # MDB_STATE_DISABLED
      THEN Returning(MDB_LogError(n, MDB_ERR_STATE), FALSE)
      ELSE LET sent == SendCommand(n, <<MDB_CMD_READER, SubReaderEnable>>)
           IN  IF sent.ret THEN MDB_SetState(sent, MDB_STATE_ENABLED) ELSE sent

(* DisableReader from Enabled or deeper: send READER DISABLE, state ->    *)
(* Disabled                                                               *)
MDB_DisableReader(m) ==
  LET n == Noted(m, "MDB_DisableReader", m.state)
  IN  IF n.state < MDB_STATE_ENABLED
      THEN Returning(MDB_LogError(n, MDB_ERR_STATE), FALSE)
      ELSE LET sent == SendCommand(n, <<MDB_CMD_READER, SubReaderDisable>>)
           IN  IF sent.ret THEN MDB_SetState(sent, MDB_STATE_DISABLED) ELSE sent

(* SessionComplete: send END SESSION, state -> Enabled, Session cleared   *)
MDB_SessionComplete(m) ==
  LET n == Noted(m, "MDB_SessionComplete", m.state)
  IN  IF n.state <= MDB_STATE_ENABLED
      THEN Returning(MDB_LogError(n, MDB_ERR_STATE), FALSE)
      ELSE LET sent == SendCommand(n, <<MDB_CMD_VEND, SubSessionComplete>>)
           IN  IF sent.ret
               THEN ClearSession(MDB_SetState(sent, MDB_STATE_ENABLED))
               ELSE sent

(* vend failure while Vend: send VEND FAILURE, state -> SessionIdle       *)
MDB_VendFailure(m) ==
  LET n == Noted(m, "MDB_VendFailure", m.state)
  IN  IF n.state # MDB_STATE_VEND
      THEN Returning(MDB_LogError(n, MDB_ERR_STATE), FALSE)
      ELSE LET sent == SendCommand(n, <<MDB_CMD_VEND, SubVendFailure>>)
           IN  IF sent.ret THEN MDB_SetState(sent, MDB_STATE_SESSION_IDLE) ELSE sent

(* "just reset": Config/Session reset, state -> Inactive, then the setup  *)
(* handshake -> Disabled                                                  *)
HandleJustReset(m) ==
  LET cleared == ClearSession(MDB_SetState(Noted(m, "HandleJustReset", m.state),
                                           MDB_STATE_INACTIVE))
      sent == SendCommand(cleared, <<MDB_CMD_SETUP, 0>>)
  IN  IF sent.ret THEN MDB_SetState(sent, MDB_STATE_DISABLED) ELSE sent

(* "begin session" while Enabled: funds stored, idle deadline started,    *)
(* state -> SessionIdle; a sequence error elsewhere                       *)
HandleBeginSession(m, msg, len) ==
  LET n == Noted(m, "HandleBeginSession", m.state)
  IN  IF n.state # MDB_STATE_ENABLED \/ len < 2
      THEN Returning(n, FALSE)
      ELSE Returning([MDB_SetState(n, MDB_STATE_SESSION_IDLE) EXCEPT
                        !.availableFunds = msg[2],
                        !.sessionTimeout = n.clock], TRUE)

(* "vend approved" while Vend: state -> SessionIdle *)
HandleVendApproved(m, msg, len) ==
  LET n == Noted(m, "HandleVendApproved", m.state)
  IN  IF n.state # MDB_STATE_VEND
      THEN Returning(n, FALSE)
      ELSE Returning(MDB_SetState(n, MDB_STATE_SESSION_IDLE), TRUE)

(* "vend denied" while Vend: state -> SessionIdle *)
HandleVendDenied(m) ==
  LET n == Noted(m, "HandleVendDenied", m.state)
  IN  IF n.state # MDB_STATE_VEND
      THEN Returning(n, FALSE)
      ELSE Returning(MDB_SetState(n, MDB_STATE_SESSION_IDLE), TRUE)

(* "end session" in a session: state -> Enabled, Session cleared *)
HandleEndSession(m) ==
  LET n == Noted(m, "HandleEndSession", m.state)
  IN  IF n.state <= MDB_STATE_ENABLED
      THEN Returning(n, FALSE)
      ELSE Returning(ClearSession(MDB_SetState(n, MDB_STATE_ENABLED)), TRUE)

(* Config is set from the setup response; the handshake leaves Disabled.  *)
(* A frame too short to carry a configuration does not parse.             *)
ParseConfiguration(m, len) ==
  LET n == Noted(m, "ParseConfiguration", len)
  IN  IF len < 2
      THEN Returning(n, FALSE)
      ELSE Returning(MDB_SetState(n, MDB_STATE_DISABLED), TRUE)

(* ------------------------------ engine -------------------------------- *)
(* the retry counter zeroed by every reset *)
MDB_Reset_ClearsRetry(m) ==
  LET sent == SendCommand(Noted([m EXCEPT !.retryCount = 0], "MDB_Reset", m.state),
                          <<MDB_CMD_RESET>>)
  IN
  IF ~sent.ret
  THEN Returning(MDB_LogError(sent, MDB_ERR_COMMUNICATION), FALSE)
  ELSE
    LET got == WaitForResponse(sent)
    IN  IF ~got.ret
        THEN Returning(MDB_LogError(got, MDB_ERR_TIMEOUT), FALSE)
        ELSE IF got.rxBuffer[1] # 0
        THEN Returning(MDB_LogError(got, MDB_ERR_SEQUENCE), FALSE)
        ELSE Returning(MDB_SetState(got, MDB_STATE_INACTIVE), TRUE)

MDB_Reset(m) ==
  LET sent == SendCommand(Noted(m, "MDB_Reset", m.state), <<MDB_CMD_RESET>>)
  IN
  IF ~sent.ret
  THEN Returning(MDB_LogError(sent, MDB_ERR_COMMUNICATION), FALSE)
  ELSE
    LET got == WaitForResponse(sent)
    IN  IF ~got.ret
        THEN Returning(MDB_LogError(got, MDB_ERR_TIMEOUT), FALSE)
        ELSE IF got.rxBuffer[1] # 0
        THEN Returning(MDB_LogError(got, MDB_ERR_SEQUENCE), FALSE)
        ELSE Returning(MDB_SetState(got, MDB_STATE_INACTIVE), TRUE)

MDB_ProcessMessage(m, msg, len) ==
  LET n == Noted(m, "MDB_ProcessMessage", len)
  IN
  IF len = 0
  THEN Returning(MDB_LogError(n, MDB_ERR_PARAMETER), FALSE)
  ELSE
    LET command == msg[1]
        handled ==
          CASE command = MDBRxCashlessJustReset -> HandleJustReset(n)
            [] command = MDBRxCashlessBeginSession -> HandleBeginSession(n, msg, len)
            [] command = MDBRxCashlessVendApproved -> HandleVendApproved(n, msg, len)
            [] command = MDBRxCashlessVendDenied -> HandleVendDenied(n)
            [] command = MDBRxCashlessEndSession -> HandleEndSession(n)
            [] OTHER -> Returning(n, FALSE)
    IN  IF ~handled.ret
        THEN Returning(MDB_LogError(Noted(handled, "FrameRejected", handled.state),
                                    MDB_ERR_SEQUENCE), FALSE)
        ELSE handled

(* dequeue: the frame at head is taken, head advances round the buffer;  *)
(* the slot keeps its bytes                                               *)
Dequeue(m) ==
  LET q == m.messageQueue
      msg == q.messages[q.head]
      inOrder == m.pending # <<>> /\ msg = Head(m.pending)
  IN  [Noted(m, "Dequeued", IF inOrder THEN 1 ELSE 0) EXCEPT
         !.messageQueue.head = (q.head + 1) % MDB_QUEUE_SIZE,
         !.messageQueue.count = q.count - 1,
         !.pending = IF @ = <<>> THEN <<>> ELSE Tail(@)]

(* the queue is drained in arrival order, each frame fed to the message   *)
(* handler                                                                *)
RECURSIVE MDB_ProcessMessageQueue(_)
MDB_ProcessMessageQueue(m) ==
  IF m.messageQueue.count = 0
  THEN Returning(m, TRUE)
  ELSE LET msg == m.messageQueue.messages[m.messageQueue.head]
       IN  MDB_ProcessMessageQueue(
             MDB_ProcessMessage(Dequeue(m), msg.data, msg.length))


(* the cap tested with <= : a fourth resend before the forced reset *)
NakRecovery_FourResends(m) ==
  IF m.retryCount <= RetryLimit
  THEN LET counted == [m EXCEPT !.retryCount = @ + 1]
       IN  IF counted.lastCommandLength > 0
           THEN SendCommand([Noted(counted, "Resend", counted.retryCount)
                               EXCEPT !.nakResends = @ + 1],
                            Prefix(counted.lastCommand, counted.lastCommandLength))
           ELSE counted
  ELSE MDB_Reset([Noted([m EXCEPT !.retryCount = 0], "ForcedReset", 0)
                    EXCEPT !.nakReset = TRUE])

(* lines 266-279: the NAK branch of the switch of MDB_HandleError *)
NakRecovery(m) ==
  IF m.retryCount < RetryLimit
  THEN LET counted == [m EXCEPT !.retryCount = @ + 1]
       IN  IF counted.lastCommandLength > 0
           THEN SendCommand([Noted(counted, "Resend", counted.retryCount)
                               EXCEPT !.nakResends = @ + 1],
                            Prefix(counted.lastCommand, counted.lastCommandLength))
           ELSE counted
  ELSE MDB_Reset([Noted([m EXCEPT !.retryCount = 0], "ForcedReset", 0)
                    EXCEPT !.nakReset = TRUE])

CommunicationRecovery(m) ==
  LET disabled == HAL_Delay(MDB_DisableReader(m), RecoveryDelay)
      reset == HAL_Delay(MDB_Reset(disabled), RecoveryDelay)
  IN  MDB_EnableReader(reset)

Recover(m, error) ==
  CASE error = MDB_ERR_NAK -> NakRecovery(m)
    [] error = MDB_ERR_TIMEOUT ->
         IF m.state # MDB_STATE_INACTIVE THEN MDB_Reset(m) ELSE m
    [] error = MDB_ERR_CHECKSUM -> SendCommand(m, <<MDB_RET>>)
    [] error = MDB_ERR_STATE ->
         IF m.state > MDB_STATE_ENABLED THEN MDB_SessionComplete(m) ELSE m
    [] error = MDB_ERR_SEQUENCE ->
         IF m.state > MDB_STATE_ENABLED THEN MDB_SessionComplete(m) ELSE MDB_Reset(m)
    [] error = MDB_ERR_FUNDS ->
         IF m.state = MDB_STATE_VEND THEN MDB_VendFailure(m) ELSE m
    [] error = MDB_ERR_HARDWARE ->
         MDB_Reset(HAL_Delay(MDB_DisableReader(m), RecoveryDelay))
    [] error = MDB_ERR_COMMUNICATION -> CommunicationRecovery(m)
    [] OTHER -> MDB_Reset(m)

(* the window tested with <= : an error exactly 5000 ms later is rapid *)
BurstDetector_Inclusive(m, currentTime) ==
  IF TicksSince(currentTime, m.lastErrorTime) <= BurstWindow
  THEN LET counted == [m EXCEPT !.rapidErrorCount = (@ + 1) % U8]
       IN  IF counted.rapidErrorCount > BurstLimit
           THEN [MDB_DisableReader(Noted([counted EXCEPT !.burstFired = TRUE],
                                         "BurstDisable", counted.rapidErrorCount))
                   EXCEPT !.rapidErrorCount = 0]
           ELSE counted
  ELSE [m EXCEPT !.rapidErrorCount = 0]

(* lines 346-364: the rolling counter of errors less than 5000 ms apart   *)
BurstDetector(m, currentTime) ==
  IF TicksSince(currentTime, m.lastErrorTime) < BurstWindow
  THEN LET counted == [m EXCEPT !.rapidErrorCount = (@ + 1) % U8]
       IN  IF counted.rapidErrorCount > BurstLimit
           THEN [MDB_DisableReader(Noted([counted EXCEPT !.burstFired = TRUE],
                                         "BurstDisable", counted.rapidErrorCount))
                   EXCEPT !.rapidErrorCount = 0]
           ELSE counted
  ELSE [m EXCEPT !.rapidErrorCount = 0]

(* the write index wrapped one slot late *)
AppendErrorLog_WrapsLate(m, currentTime, error) ==
  LET errorEntry == [timestamp |-> currentTime, error |-> error,
                     state |-> m.state, lastCommand |-> m.lastCommand[1],
                     lastResponse |-> m.rxBuffer[1]]
  IN  [m EXCEPT !.errorLog[m.errorLogIndex] = errorEntry,
                !.errorLogIndex = (@ + 1) % (MDB_ERROR_LOG_SIZE + 1)]

(* lines 366-377: one entry appended to the circular error log *)
AppendErrorLog(m, currentTime, error) ==
  LET errorEntry == [timestamp |-> currentTime, error |-> error,
                     state |-> m.state, lastCommand |-> m.lastCommand[1],
                     lastResponse |-> m.rxBuffer[1]]
  IN  [m EXCEPT !.errorLog[m.errorLogIndex] = errorEntry,
                !.errorLogIndex = (@ + 1) % MDB_ERROR_LOG_SIZE]

(* every kind of error counted as serious *)
SeriousErrors_AnyKind(m, error) ==
  IF error # MDB_ERR_NONE
  THEN LET counted == [m EXCEPT !.seriousErrorCount = (@ + 1) % U8]
       IN  IF counted.seriousErrorCount >= SeriousLimit
           THEN [Noted(counted, "MDB_DumpLogs", counted.seriousErrorCount)
                   EXCEPT !.seriousErrorCount = 0]
           ELSE counted
  ELSE m

(* lines 379-387 *)
SeriousErrors(m, error) ==
  IF error = MDB_ERR_HARDWARE \/ error = MDB_ERR_COMMUNICATION
  THEN LET counted == [m EXCEPT !.seriousErrorCount = (@ + 1) % U8]
       IN  IF counted.seriousErrorCount >= SeriousLimit
           THEN [Noted(counted, "MDB_DumpLogs", counted.seriousErrorCount)
                   EXCEPT !.seriousErrorCount = 0]
           ELSE counted
  ELSE m

(* every entry ever handed to the error log, oldest first *)
ObserveLog(m, currentTime, error) ==
  [m EXCEPT !.logged = Append(@, [timestamp |-> currentTime, error |-> error,
                                  state |-> m.state,
                                  lastCommand |-> m.lastCommand[1],
                                  lastResponse |-> m.rxBuffer[1]])]

(* what the run of errors looked like up to and including this one; the   *)
(* error is dated by the clock value its log entry carries                *)
ObserveError(m, error, currentTime) ==
  LET gap == TicksSince(currentTime, m.lastErrorTime)
      inRun == m.errCount > 0 /\ gap < BurstWindow
  IN  [m EXCEPT !.errCount = @ + 1,
                !.errRun = IF inRun THEN @ + 1 ELSE 1,
                !.spaced = @ /\ gap >= BurstWindow]

ObserveNak(m, error) ==
  IF error # MDB_ERR_NAK
  THEN [m EXCEPT !.nakRun = 0, !.nakResends = 0, !.nakReset = FALSE]
  ELSE IF m.nakRun \in 1..RetryLimit
  THEN [m EXCEPT !.nakRun = @ + 1]
  ELSE IF m.retryCount = 0 /\ m.lastCommandLength > 0
  THEN [m EXCEPT !.nakRun = 1, !.nakResends = 0, !.nakReset = FALSE]
  ELSE [m EXCEPT !.nakRun = 0, !.nakResends = 0, !.nakReset = FALSE]

MDB_HandleError(m, error) ==
  LET noted == Noted(Noted(Noted(m, "MDB_HandleError", error),
                           "StateAtError", m.state),
                     "CommandAtError", m.lastCommand[1])
      entered == ObserveNak([MDB_LogError(noted, error)
                               EXCEPT !.burstFired = FALSE], error)
      recovered == Recover(entered, error)
      currentTime == recovered.clock
      observed == ObserveError(recovered, error, currentTime)
      judged == [BurstDetector(observed, currentTime) EXCEPT
                   !.lastErrorTime = currentTime]
      written == AppendErrorLog(ObserveLog(judged, currentTime, error),
                                currentTime, error)
  IN  SeriousErrors(written, error)


(* a POLL has gone out on the wire: when, and how long after the one     *)
(* before it                                                              *)
ObservePoll(m) ==
  [m EXCEPT !.pollSentAt = m.clock,
            !.pollGap = IF m.pollSentAt < 0 \/ m.clock - m.pollSentAt >= @
                        THEN @ ELSE m.clock - m.pollSentAt]

(* the time of the call recorded before the interval is tested *)
MDB_Poll_StampsFirst(m) ==
  LET currentTime == m.clock
  IN
  IF TicksSince(currentTime, m.lastPollTime) < MDB_POLL_INTERVAL
  THEN [m EXCEPT !.lastPollTime = currentTime]
  ELSE
    LET drained == MDB_ProcessMessageQueue(
                     [Noted(m, "PollCycle", m.state) EXCEPT !.lastPollTime = currentTime])
        sent == SendCommand(drained, <<MDB_CMD_POLL>>)
    IN
    IF ~sent.ret
    THEN MDB_HandleError(sent, MDB_ERR_COMMUNICATION)
    ELSE WaitForResponse(ObservePoll(sent))

MDB_Poll(m) ==
  LET currentTime == m.clock
  IN
  IF TicksSince(currentTime, m.lastPollTime) < MDB_POLL_INTERVAL
  THEN m
  ELSE
    LET drained == MDB_ProcessMessageQueue(
                     [Noted(m, "PollCycle", m.state) EXCEPT !.lastPollTime = currentTime])
        sent == SendCommand(drained, <<MDB_CMD_POLL>>)
    IN
    IF ~sent.ret
    THEN MDB_HandleError(sent, MDB_ERR_COMMUNICATION)
    ELSE
      LET got == WaitForResponse(ObservePoll(sent))
      IN
      IF ~got.ret
      THEN got
      ELSE
        LET processed == IF got.respLen > 0
                         THEN MDB_ProcessMessage(got, Prefix(got.rxBuffer, got.respLen),
                                                 got.respLen)
                         ELSE got
        IN  IF processed.state = MDB_STATE_SESSION_IDLE
               /\ TicksSince(currentTime, processed.sessionTimeout) > SessionIdleLimit
            THEN MDB_SessionComplete(processed)
            ELSE processed

(* the session left in the state it had *)
ResetInternalState_KeepsState(m) ==
  [ClearSession(m) EXCEPT !.messageQueue = ZeroQueue, !.pending = <<>>]

(* lines 39-47: Config, Session and queue zeroed, state Inactive *)
ResetInternalState(m) ==
  [ClearSession(m) EXCEPT !.messageQueue = ZeroQueue, !.pending = <<>>,
                          !.state = MDB_STATE_INACTIVE]

MDB_Initialize(m) ==
  LET zeroed == ResetInternalState(Noted(m, "MDB_Initialize", m.state))
      reset == MDB_Reset(zeroed)
  IN
  IF ~reset.ret
  THEN Returning(reset, FALSE)
  ELSE
    LET sent == SendCommand(reset, <<MDB_CMD_SETUP, 0>>)
    IN
    IF ~sent.ret
    THEN Returning(sent, FALSE)
    ELSE
      LET got == WaitForResponse(sent)
      IN
      IF ~got.ret
      THEN Returning(got, FALSE)
      ELSE
        LET parsed == ParseConfiguration(got, got.respLen)
        IN  IF ~parsed.ret
            THEN Returning(parsed, FALSE)
            ELSE LET enabled == MDB_EnableReader(parsed)
                 IN  IF ~enabled.ret
                     THEN Returning(enabled, FALSE)
                     ELSE Returning(enabled, TRUE)

(* a full queue takes the frame all the same, over the oldest one *)
MDB_QueueMessage_Overwrites(m, data) ==
  LET n == Noted(m, "MDB_QueueMessage", m.messageQueue.count)
      q == n.messageQueue
      msg == Message(data)
  IN  IF q.count > MDB_QUEUE_SIZE
      THEN Returning(n, FALSE)
      ELSE Returning([n EXCEPT
                        !.messageQueue.messages[q.tail] = msg,
                        !.messageQueue.tail = (q.tail + 1) % MDB_QUEUE_SIZE,
                        !.messageQueue.count = q.count + 1,
                        !.pending = Append(@, msg)], TRUE)

(* enqueue: fails when the queue already holds MDB_QUEUE_SIZE frames;    *)
(* otherwise the frame is stored at tail with its capture tick            *)
MDB_QueueMessage(m, data) ==
  LET n == Noted(m, "MDB_QueueMessage", m.messageQueue.count)
      q == n.messageQueue
      msg == Message(data)
  IN  IF q.count >= MDB_QUEUE_SIZE
      THEN Returning(n, FALSE)
      ELSE Returning([n EXCEPT
                        !.messageQueue.messages[q.tail] = msg,
                        !.messageQueue.tail = (q.tail + 1) % MDB_QUEUE_SIZE,
                        !.messageQueue.count = q.count + 1,
                        !.pending = Append(@, msg)], TRUE)

(* ------------------------- the environment ---------------------------- *)
(* what the device may send in answer to a command, then staying silent   *)
Flood == [i \in 1..MDB_MAX_MESSAGE_LENGTH |-> 85]
Silence == <<>>
Scripts == {Silence, <<MDB_ACK>>, <<5, 5>>}
RxPlans == {<<s>> : s \in Scripts}
HandshakePlans == {<<s, t>> : s \in {Silence, <<MDB_ACK>>, <<MDB_NAK>>, <<MDB_RET>>, Flood},
                              t \in {<<1, 2, 3>>}}
TxPatterns == SUBSET (1..MaxTx)
QueueFrames == {<<MDBRxCashlessJustReset>>, <<MDBRxCashlessBeginSession, 50>>, <<9>>}
TickUnit == BurstWindow \div 5

ZeroEntry == [timestamp |-> 0, error |-> 0, state |-> 0, lastCommand |-> 0,
              lastResponse |-> 0]

Init ==
  /\ state = MDB_STATE_INACTIVE
  /\ availableFunds = 0 /\ vendAmount = 0 /\ itemNumber = 0
  /\ multivend = FALSE /\ refundable = FALSE /\ sessionTimeout = 0
  /\ messageQueue = ZeroQueue
  /\ errorLog = [i \in 0..(MDB_ERROR_LOG_SIZE - 1) |-> ZeroEntry]
  /\ errorLogIndex = 0
  /\ lastPollTime = 0
  /\ rxBuffer = ZeroBuffer /\ lastCommand = ZeroBuffer /\ lastCommandLength = 0
  /\ retryCount = 0
  /\ lastErrorTime = 0 /\ rapidErrorCount = 0 /\ seriousErrorCount = 0
  /\ clock = 0
  /\ lastOp = "none" /\ ret = TRUE /\ calls = <<>> /\ wire = <<>>
  /\ errCount = 0 /\ errRun = 0 /\ burstFired = FALSE /\ spaced = TRUE
  /\ nakRun = 0 /\ nakResends = 0 /\ nakReset = FALSE
  /\ logged = <<>> /\ pending = <<>>
  /\ pollSentAt = -1 /\ pollGap = TickWrapped /\ lastAccepted = <<>>

(* time passes between two calls of the host application *)
Tick(deltas, limit) ==
  \E d \in deltas :
    /\ clock + d <= limit
    /\ clock' = clock + d
    /\ UNCHANGED <<state, availableFunds, vendAmount, itemNumber, multivend,
                   refundable, sessionTimeout, messageQueue, errorLog,
                   errorLogIndex, lastPollTime, rxBuffer, lastCommand,
                   lastCommandLength, retryCount, lastErrorTime, rapidErrorCount,
                   seriousErrorCount, lastOp, ret, calls, wire, errCount, errRun,
                   burstFired, spaced, nakRun, nakResends, nakReset,
                   logged, pending, pollSentAt, pollGap, lastAccepted>>

(* the host calls the engine while the time the engine itself has spent   *)
(* waiting, beyond whole ticks, is below MaxBusy ms                       *)
Ready == clock % TickUnit < MaxBusy

InitializeWith(patterns, plans) ==
  \E f \in patterns, p \in plans :
    Commit(MDB_Initialize(Machine("MDB_Initialize", f, p)))

InitializeNow == InitializeWith(TxPatterns, HandshakePlans)

Initialize ==
  /\ Ready
  /\ InitializeNow

PollWith(patterns, plans) ==
  \E f \in patterns, p \in plans :
    Commit(MDB_Poll(Machine("MDB_Poll", f, p)))

PollNow == PollWith(TxPatterns, RxPlans)

Poll(cap) ==
  /\ Ready /\ errCount < cap
  /\ PollNow

HandleError(kinds, cap, plans) ==
  /\ errCount < cap
  /\ \E e \in kinds, f \in TxPatterns, p \in plans :
       Commit(MDB_HandleError(Machine("MDB_HandleError", f, p), e))

EnableReader ==
  /\ Ready
  /\ \E f \in TxPatterns :
       Commit(MDB_EnableReader(Machine("MDB_EnableReader", f, <<>>)))

QueueNow ==
  /\ messageQueue.count < MaxQueued
  /\ messageQueue.tail < MaxEnqueued
  /\ \E data \in QueueFrames :
       Commit(MDB_QueueMessage(Machine("MDB_QueueMessage", {}, <<>>), data))

QueueMessage ==
  /\ Ready
  /\ QueueNow

(* the engine driven by its host: frames arrive, the poll loop runs, the  *)
(* reader is enabled, an error is reported                                *)
Next ==
  \/ Tick({SessionIdleLimit + TickUnit}, MaxClock)
  \/ Initialize
  \/ Poll(MaxErrors)
  \/ Ready /\ HandleError({MDB_ERR_COMMUNICATION}, MaxErrors, RxPlans)
  \/ EnableReader
  \/ QueueMessage

Spec == Init /\ [][Next]_vars

(* the Error & Recovery Manager alone, fed runs of errors *)
NextErr ==
  \/ Tick({BurstWindow}, MaxErrClock)
  \/ HandleError({MDB_ERR_NAK, MDB_ERR_COMMUNICATION}, MaxRunErrors, {<<Silence>>})

SpecErr == Init /\ [][NextErr]_vars

(* the error log filled past its capacity: a few errors of any kind, then *)
(* hardware errors against a silent device, 105 ms apart                  *)
LogVaried ==
  /\ errCount < MaxVaried
  /\ HandleError({MDB_ERR_NAK, MDB_ERR_CHECKSUM, MDB_ERR_HARDWARE}, MaxVaried,
                 {<<Silence>>})

LogFill ==
  /\ errCount >= MaxVaried /\ errCount < MaxLogged
  /\ Commit(MDB_HandleError(Machine("MDB_HandleError", {}, <<Silence>>),
                            MDB_ERR_HARDWARE))

NextLog ==
  \/ LogVaried
  \/ LogFill

SpecLog == Init /\ [][NextLog]_vars

(* the queue alone: a frame arrives each millisecond, the first ones of  *)
(* any kind and the later ones numbered by their arrival; the queue is    *)
(* drained at any moment                                                  *)
Arrive ==
  /\ clock < MaxArrivals
  /\ \E data \in IF clock < MaxVaried THEN QueueFrames ELSE {<<9, clock>>} :
       Commit(MDB_QueueMessage(Elapse(Machine("MDB_QueueMessage", {}, <<>>), 1),
                               data))

Drain ==
  /\ messageQueue.count > 0
  /\ Commit(MDB_ProcessMessageQueue(Machine("MDB_ProcessMessageQueue", {}, <<>>)))

NextQueue ==
  \/ Arrive
  \/ Drain

SpecQueue == Init /\ [][NextQueue]_vars

(* the poll loop alone, called at any multiple of 50 ms and whatever the  *)
(* engine itself has spent waiting, frames arriving in between            *)
PollStep == MDB_POLL_INTERVAL \div 4

NextPoll ==
  \/ Tick({PollStep, 2 * PollStep}, MaxPollClock)
  \/ clock < MaxPollClock /\ PollNow
  \/ clock < MaxPollClock /\ QueueNow

SpecPoll == Init /\ [][NextPoll]_vars

(* the link in use: commands go out from the poll loop, from the setup   *)
(* handshake and from the host's own requests, one of them too long, and  *)
(* the device NAKs or garbles some of them                                *)
HostFrames == {<<MDB_CMD_VEND, 7>>, Flood}

Send ==
  /\ Ready
  /\ \E f \in TxPatterns, data \in HostFrames :
       Commit(SendCommand(Machine("SendCommand", f, <<>>), data))

NextLink ==
  \/ Tick({TickUnit}, MaxLinkClock)
  \/ Ready /\ PollWith({{}}, {<<<<MDB_ACK>>>>})
  \/ Ready /\ InitializeWith({{}}, {<<<<MDB_ACK>>>>})
  \/ HandleError({MDB_ERR_NAK}, MaxLinkErrors, {<<Silence>>})
  \/ HandleError({MDB_ERR_CHECKSUM}, MaxVaried, {<<Silence>>})
  \/ Send

SpecLink == Init /\ [][NextLink]_vars

(* the framing alone: a payload is sent and the frame comes back, intact  *)
(* or with bit k of byte i flipped, and goes through the receiver's check *)
TestBytes == {0, 1, 85, 128, 255}
Fresh == lastOp = "none"
Payloads == UNION {[1..n -> TestBytes] : n \in 1..MaxPayload}
Corrupted(frame, i, k) == [frame EXCEPT ![i] = FlipBit(@, k)]

Received(m, frame) ==
  ValidateFrame([m EXCEPT !.rxBuffer = MemCpy(@, frame)], Len(frame))

EchoIntact ==
  /\ Fresh
  /\ \E data \in Payloads :
    LET sent == SendCommand(Machine("EchoIntact", {}, <<>>), data)
    IN  Commit(Received(sent, sent.wire[1]))

EchoCorrupted ==
  /\ Fresh
  /\ \E data \in Payloads, k \in 0..7 :
    LET sent == SendCommand(Machine("EchoCorrupted", {}, <<>>), data)
    IN  \E i \in 1..Len(sent.wire[1]) :
          Commit(Received(sent, Corrupted(sent.wire[1], i, k)))

NextChecksum ==
  \/ EchoIntact
  \/ EchoCorrupted

SpecChecksum == Init /\ [][NextChecksum]_vars

(* the variables of the engine: everything but the clock and the record  *)
(* of what the last operation did                                         *)
engine == <<state, availableFunds, vendAmount, itemNumber, multivend, refundable,
            sessionTimeout, messageQueue, errorLog, errorLogIndex, lastPollTime,
            rxBuffer, lastCommand, lastCommandLength, retryCount,
            lastErrorTime, rapidErrorCount, seriousErrorCount>>

(* ------------------------------ claims -------------------------------- *)
Called(fn) == \E i \in 1..Len(calls) : calls[i].fn = fn
CalledWith(fn, arg) == \E i \in 1..Len(calls) : calls[i] = Call(fn, arg)
Entered(fn, arg) == calls # <<>> /\ calls[1] = Call(fn, arg)

C2_BurstOnSixth ==
  /\ errRun = BurstLimit + 1 => burstFired
  /\ errRun \in 1..BurstLimit => ~burstFired

C5_InitializeOutcome ==
  lastOp = "MDB_Initialize" =>
    /\ ret => /\ CalledWith("FrameAccepted", 0)
              /\ Cardinality({i \in 1..Len(calls) : calls[i].fn = "FrameAccepted"}) = 2
    /\ ~ret => state = MDB_STATE_INACTIVE

C5_Witness ==
  /\ lastOp = "MDB_Initialize" /\ ~ret /\ state = MDB_STATE_INACTIVE
  /\ \E s \in MDB_STATE_DISABLED..MDB_STATE_SESSION_IDLE : Entered("MDB_Initialize", s)

(* C6: a Poll cycle in which a byte is dropped in the interbyte phase of  *)
(* WaitForResponse classifies the failure as Communication and executes   *)
(* MDB_Reset as recovery.                                                 *)
C6_DroppedByteForcesReset ==
  (lastOp = "MDB_Poll" /\ Called("InterbyteTimeout")) =>
     /\ CalledWith("MDB_LogError", MDB_ERR_COMMUNICATION)
     /\ Called("MDB_Reset")

(* C7: every frame MDB_ProcessMessage rejects is handed to MDB_HandleError *)
(* as a Sequence error, after which SessionComplete runs if the state was *)
(* above Enabled and MDB_Reset otherwise.                                 *)
C7_RejectedFrameRecovered ==
  \A i \in 1..Len(calls) :
    calls[i].fn = "FrameRejected" =>
      \E j \in (i + 1)..Len(calls) :
        /\ calls[j] = Call("MDB_HandleError", MDB_ERR_SEQUENCE)
        /\ \E k \in (j + 1)..Len(calls) :
             calls[k].fn = IF calls[i].arg > MDB_STATE_ENABLED
                           THEN "MDB_SessionComplete" ELSE "MDB_Reset"

(* C8: a Poll cycle that passed the interval gate does not leave a        *)
(* session in SessionIdle more than 30000 ms after its idle deadline was  *)
(* started without having invoked MDB_SessionComplete, whether or not the *)
(* device answered the POLL.                                              *)
C8_IdleTimeoutEnforced ==
  (/\ lastOp = "MDB_Poll" /\ Called("PollCycle")
   /\ state = MDB_STATE_SESSION_IDLE
   /\ TicksSince(lastPollTime, sessionTimeout) > SessionIdleLimit) =>
     Called("MDB_SessionComplete")

(* C9: when every transmit succeeds and the device answers the RESET,     *)
(* MDB_HandleError(Communication) calls DisableReader, Reset, EnableReader *)
(* in that order and leaves the state Enabled.                            *)
C9_CommunicationRecoveryReenables ==
  (/\ lastOp = "MDB_HandleError"
   /\ Entered("MDB_HandleError", MDB_ERR_COMMUNICATION)
   /\ ~Called("TransmitFailed")
   /\ CalledWith("WaitForResponse", MDB_ACK)) =>
     /\ \E i, j, k \in 1..Len(calls) :
          /\ i < j /\ j < k
          /\ calls[i].fn = "MDB_DisableReader"
          /\ calls[j].fn = "MDB_Reset"
          /\ calls[k].fn = "MDB_EnableReader"
     /\ state = MDB_STATE_ENABLED

(* C10: when every transmit succeeds and the device answers RESET with    *)
(* 0x00 and SETUP with a checksummed frame, MDB_Initialize completes the  *)
(* setup handshake and calls MDB_EnableReader with the state Disabled.    *)
C10_InitializeEnablesFromDisabled ==
  (/\ lastOp = "MDB_Initialize"
   /\ ~Called("TransmitFailed")
   /\ CalledWith("WaitForResponse", MDB_ACK)) =>
     CalledWith("MDB_EnableReader", MDB_STATE_DISABLED)

(* C11: whenever MDB_Reset has run with every transmit succeeding and the *)
(* device answering the RESET with 0x00, the Session is back at its       *)
(* defaults: funds, vend amount, item number, both flags and the idle     *)
(* deadline are cleared (the state after the enclosing recovery is the    *)
(* subject of C9).                                                        *)
C11_ResetClearsSession ==
  (/\ Called("MDB_Reset")
   /\ ~Called("TransmitFailed")
   /\ CalledWith("WaitForResponse", MDB_ACK)) =>
     /\ availableFunds = 0 /\ vendAmount = 0 /\ itemNumber = 0
     /\ ~multivend /\ ~refundable /\ sessionTimeout = 0

(* C12: the entry MDB_HandleError writes to the error log carries the     *)
(* session state and the last command byte as they were on entry to       *)
(* MDB_HandleError, before the recovery action ran.                       *)
C12_LogEntryAtError ==
  LET written == errorLog[(errorLogIndex + MDB_ERROR_LOG_SIZE - 1) % MDB_ERROR_LOG_SIZE]
  IN  \A i \in 1..Len(calls) :
        /\ calls[i].fn = "StateAtError" => written.state = calls[i].arg
        /\ calls[i].fn = "CommandAtError" => written.lastCommand = calls[i].arg

(* C13: every call of MDB_HandleError advances the write index by one     *)
(* slot, the index stays in 0..49, and after N calls the log holds the    *)
(* most recent min(N, 50) entries, each in the slot of its rank modulo    *)
(* 50, and nothing else: the 51st entry replaces the 1st and no other.    *)
C13_LogCircular ==
  /\ errorLogIndex \in 0..(MDB_ERROR_LOG_SIZE - 1)
  /\ Len(logged) = errCount
  /\ errorLogIndex = errCount % MDB_ERROR_LOG_SIZE
  /\ \A k \in 1..Len(logged) :
       k > Len(logged) - MDB_ERROR_LOG_SIZE =>
         errorLog[(k - 1) % MDB_ERROR_LOG_SIZE] = logged[k]
  /\ \A i \in 0..(MDB_ERROR_LOG_SIZE - 1) :
       i >= Len(logged) => errorLog[i] = ZeroEntry

C13_Witness ==
  /\ Len(logged) = MDB_ERROR_LOG_SIZE + 1
  /\ errorLog[0] = logged[MDB_ERROR_LOG_SIZE + 1]
  /\ errorLog[0] # logged[1]
  /\ errorLog[1] = logged[2]
  /\ errorLogIndex = 1

(* C14: when the device answers with one control byte (ACK, NAK or RET)   *)
(* and nothing more, WaitForResponse accepts it as a complete frame: it   *)
(* succeeds, waits for no further byte and logs no error.                 *)
C14_ControlByteAccepted ==
  \A i \in 1..(Len(calls) - 1) :
    (/\ calls[i].fn = "WaitForResponse"
     /\ calls[i].arg \in {MDB_ACK, MDB_NAK, MDB_RET}
     /\ calls[i + 1] = Call("DeviceSent", 1)) =>
       /\ CalledWith("FrameAccepted", calls[i].arg)
       /\ ~Called("InterbyteTimeout")

(* C15: the recovery from a Checksum error puts exactly one frame on the  *)
(* wire, and that frame is the single byte 0xAA with no checksum byte     *)
(* after it.                                                              *)
C15_RetIsControlFrame ==
  (/\ lastOp = "MDB_HandleError"
   /\ Entered("MDB_HandleError", MDB_ERR_CHECKSUM)
   /\ ~Called("TransmitFailed")) =>
     wire = << <<MDB_RET>> >>

(* C16: the serious-error counter is the number of Hardware and           *)
(* Communication errors handled so far, modulo 3, whatever other errors   *)
(* came in between and whenever they came; the logs are dumped while an   *)
(* error is handled exactly when that error is the 3rd, 6th, ... serious  *)
(* one.                                                                   *)
SeriousKinds == {MDB_ERR_HARDWARE, MDB_ERR_COMMUNICATION}
SeriousSeen == Cardinality({k \in 1..Len(logged) : logged[k].error \in SeriousKinds})

C16_SeriousEveryThird ==
  /\ seriousErrorCount = SeriousSeen % SeriousLimit
  /\ Called("MDB_HandleError") =>
       (Called("MDB_DumpLogs") <=>
          /\ logged[Len(logged)].error \in SeriousKinds
          /\ SeriousSeen % SeriousLimit = 0)

C16_Witness ==
  /\ SeriousSeen = 2 * SeriousLimit
  /\ Called("MDB_DumpLogs")
  /\ seriousErrorCount = 0
  /\ \E k \in 1..(Len(logged) - 1) :
       logged[k].error = MDB_ERR_NAK /\ logged[k + 1].error \in SeriousKinds
  /\ \E k \in 1..(Len(logged) - 1) :
       logged[k + 1].timestamp - logged[k].timestamp >= BurstWindow

(* C17: the queue never holds more than 10 frames, tail is head + count   *)
(* modulo 10, the frames stored from head on are the frames accepted and  *)
(* not yet taken, in arrival order, and every frame taken is the oldest   *)
(* of them; an enqueue succeeds exactly when fewer than 10 frames are     *)
(* held, and on a full queue it returns false and leaves head, tail,      *)
(* count and every slot as they were.                                     *)
QueueContent ==
  [k \in 1..messageQueue.count |->
     messageQueue.messages[(messageQueue.head + k - 1) % MDB_QUEUE_SIZE]]

C17_QueueFifo ==
  /\ [](/\ messageQueue.count <= MDB_QUEUE_SIZE
        /\ messageQueue.tail
             = (messageQueue.head + messageQueue.count) % MDB_QUEUE_SIZE
        /\ QueueContent = pending
        /\ ~CalledWith("Dequeued", 0)
        /\ lastOp = "MDB_QueueMessage" =>
             (ret <=> ~CalledWith("MDB_QueueMessage", MDB_QUEUE_SIZE)))
  /\ [][CalledWith("MDB_QueueMessage", MDB_QUEUE_SIZE)' =>
          (messageQueue' = messageQueue /\ ~ret')]_vars

C17_Witness ==
  /\ lastOp = "MDB_QueueMessage" /\ ~ret
  /\ CalledWith("MDB_QueueMessage", MDB_QUEUE_SIZE)
  /\ messageQueue.count = MDB_QUEUE_SIZE
  /\ messageQueue.head = 3 /\ messageQueue.tail = 3
  /\ pending[1] # pending[MDB_QUEUE_SIZE]

C19_RetryOnlyInNak ==
  /\ [](retryCount \in 0..RetryLimit)
  /\ [][retryCount' # retryCount =>
          /\ CalledWith("MDB_HandleError", MDB_ERR_NAK)'
          /\ \/ retryCount' = retryCount + 1 /\ ~Called("ForcedReset")'
             \/ /\ retryCount = RetryLimit /\ retryCount' = 0
                /\ Called("ForcedReset")']_vars

C19_Witness ==
  /\ lastOp = "MDB_Initialize" /\ Called("MDB_Reset")
  /\ retryCount = RetryLimit
  /\ \E k \in 1..Len(logged) : logged[k].error = MDB_ERR_CHECKSUM
  /\ lastPollTime > 0

(* C20: the saved command is always the most recent frame SendCommand     *)
(* accepted, whether or not its transmit succeeded; the frame resent on a *)
(* NAK is that frame with its checksum; a frame rejected for its length   *)
(* changes neither the saved command nor its length and puts nothing on   *)
(* the wire.                                                              *)
SavedCommand == Prefix(lastCommand, lastCommandLength)

C20_ResendsLastAccepted ==
  /\ [](/\ SavedCommand = lastAccepted
        /\ lastCommandLength <= MDB_MAX_MESSAGE_LENGTH - 1)
  /\ [][/\ (Called("Resend") /\ ~Called("TransmitFailed"))' =>
             wire'[1] = Append(lastAccepted,
                               CalculateChecksum(lastAccepted, Len(lastAccepted)))
        /\ (lastOp = "SendCommand" /\ CalledWith("SendCommand", MDB_MAX_MESSAGE_LENGTH))' =>
             /\ ~ret' /\ wire' = <<>>
             /\ lastCommand' = lastCommand
             /\ lastCommandLength' = lastCommandLength]_vars

C20_Witness ==
  /\ Called("Resend") /\ ~Called("TransmitFailed")
  /\ lastAccepted = <<MDB_CMD_POLL>>
  /\ wire = << <<MDB_CMD_POLL, MDB_CMD_POLL>> >>
  /\ \E k \in 1..Len(logged) : logged[k].lastCommand = MDB_RET

=============================================================================
